---- MODULE Spec2Model ----
(***************************************************************************)
(* Model of pget_util.py: launch_pget / wait_pget and the PGetFile handle. *)
(* Strings and paths are sequences of tokens; the filesystem is the set of *)
(* paths that exist.  Every filesystem access of a call is one step, so    *)
(* calls of different callers interleave between any two accesses.         *)
(***************************************************************************)
EXTENDS Integers, Sequences, FiniteSets, TLC

\* ------------------------------------------------------------------ bounds
\* the callers (threads or processes) that use the module at once
NumCallers == 2

\* the calls the callers make in one run, all callers together
MaxCalls == 3

Callers == 1..NumCallers

\* ------------------------------------------------------- strings and paths
DOT == "."
SEP == "/"

LOADING == <<DOT, "loading">>

BASE_URL == <<"https://weights.replicate.delivery/">>

PGET_BIN == <<"/usr/bin/pget">>

DOCKERENV == <<SEP, DOT, "dockerenv">>

\* the file names a run may use
W == <<"w">>

\* values of the PGET environment variable: <<>> is "not set" (os.getenv
\* gives None), <<s>> is "set to the string s"
EnvValues == { <<>>, <<"">>, <<"1">> }

RECURSIVE rfind(_, _, _)
rfind(s, ch, i) ==
  IF i = 0 THEN 0
  ELSE IF s[i] = ch THEN i ELSE rfind(s, ch, i - 1)

\* pathlib: PurePath.name, the final component
PathName(p) ==
  LET i == rfind(p, SEP, Len(p))
  IN  SubSeq(p, i + 1, Len(p))

\* pathlib: PurePath.suffix, the part of the name from its last dot, unless
\* that dot is the first or the last character of the name
PathSuffix(p) ==
  LET n == PathName(p)
      i == rfind(n, DOT, Len(n))
  IN  IF 1 < i /\ i < Len(n) THEN SubSeq(n, i, Len(n)) ELSE <<>>

\* pathlib: with_suffix raises ValueError on an empty name or a suffix that
\* does not start with a dot, is a lone dot, or holds a separator
WithSuffixOk(p, suf) ==
  /\ PathName(p) # <<>>
  /\ suf # <<>> => /\ suf[1] = DOT
                   /\ suf # <<DOT>>
                   /\ rfind(suf, SEP, Len(suf)) = 0

\* pathlib: with_suffix replaces the old suffix of the name by suf
WithSuffix(p, suf) ==
  LET old == PathSuffix(p)
  IN  SubSeq(p, 1, Len(p) - Len(old)) \o suf

\* os.getenv("PGET") as a condition: None and "" are falsy
Truthy(v) == v # <<>> /\ v[1] # ""

\* callers are interchangeable: one order of each choice of environments
EnvRank(v) == IF v = <<>> THEN 0 ELSE IF v[1] = "" THEN 1 ELSE 2

Environments ==
  { e \in [Callers -> EnvValues] :
      \A c \in Callers : c + 1 \in Callers => EnvRank(e[c]) <= EnvRank(e[c + 1]) }

\* ------------------------------------------------- launch_pget, by line
\* line 9
launch_pget_downloading(file_name) ==
  WithSuffix(file_name, PathSuffix(file_name) \o LOADING)

\* line 10, first operand
launch_pget_target_exists_twice(files, file_name) ==
  launch_pget_downloading(file_name) \in files

launch_pget_target_exists(files, file_name) == file_name \in files

\* line 10, second operand
launch_pget_sentinel_exists_target(files, file_name) == file_name \in files

launch_pget_sentinel_exists(files, file_name) ==
  launch_pget_downloading(file_name) \in files

\* line 13
launch_pget_gate_set(files, pgetenv) ==
  pgetenv # <<>> \/ DOCKERENV \notin files

launch_pget_gate(files, pgetenv) ==
  Truthy(pgetenv) \/ DOCKERENV \notin files

\* line 14 and the argument list of line 16
launch_pget_args_swapped(file_name) ==
  <<PGET_BIN, file_name, BASE_URL \o file_name>>

launch_pget_args(file_name) ==
  <<PGET_BIN, BASE_URL \o file_name, file_name>>

\* ------------------------------------------------------------------- state
VARIABLES
  fs,         \* the paths that exist
  names,      \* the file names the callers of this run pass in
  PGET,       \* PGET[c]: the PGET variable in caller c's environment
  pc,         \* pc[c]: where caller c is
  op,         \* op[c]: the entry point c is in, or was in last
  arg,        \* arg[c]: the file name of that call
  inst,       \* inst[c]: c's PGetFile instance
  procs,      \* the subprocesses spawned so far, by handle
  calls,      \* the calls made so far
  caller,     \* who made the latest call
  fs0,        \* the paths that existed when the run began
  sentAtCall  \* sentAtCall[c]: c is in a launch that began with the sentinel present

vars == <<fs, names, PGET, pc, op, arg, inst, procs, calls, caller, fs0,
          sentAtCall>>

\* the proc attribute of an instance: the class body only annotates it
\* (line 38), so it is unset until launch assigns a Popen (line 56); handles
\* are the positive indices into procs, and None is the falsy value of the
\* annotation
UNSET == -1
NONE == 0

NoInst ==
  [made |-> FALSE, fname |-> <<>>, file_path |-> <<>>, downloading |-> <<>>,
   proc |-> UNSET]

Rest == {"returned", "raised_ValueError", "raised_AttributeError",
         "raised_OSError"}

\* the marker path of a file name, as both entry points derive it
Sentinel(f) == WithSuffix(f, PathSuffix(f) \o LOADING)

SentinelOk(f) == WithSuffixOk(f, PathSuffix(f) \o LOADING)

\* the positions inside a launch, of either entry point
LaunchPcs == {"lp_sentinel", "lp_gate", "lp_touch", "lp_spawn",
              "pl_sentinel", "pl_gate", "pl_touch", "pl_spawn"}

\* a launch that goes on past its first test is marked with whether the
\* sentinel of f was there when it began; the mark is cleared when the launch
\* is over
Mark(c, to, f) ==
  sentAtCall' = [sentAtCall EXCEPT ![c] =
                   IF to \notin LaunchPcs THEN FALSE
                   ELSE IF pc[c] \in LaunchPcs THEN @
                   ELSE Sentinel(f) \in fs]

\* caller c calls entry point o with file name f and gets to position to
Enter(c, o, f, to) ==
  /\ calls < MaxCalls
  /\ calls' = calls + 1
  /\ caller' = c
  /\ op' = [op EXCEPT ![c] = o]
  /\ arg' = [arg EXCEPT ![c] = f]
  /\ pc' = [pc EXCEPT ![c] = to]
  /\ Mark(c, to, f)

\* caller c, inside a call, gets to position to
Goto(c, to) ==
  /\ pc' = [pc EXCEPT ![c] = to]
  /\ Mark(c, to, arg[c])
  /\ UNCHANGED <<op, arg, calls, caller>>

InitWith(ns) ==
  /\ names = ns
  /\ fs \in SUBSET (ns \cup {Sentinel(f) : f \in ns} \cup {DOCKERENV})
  /\ PGET \in Environments
  /\ pc = [c \in Callers |-> "returned"]
  /\ op = [c \in Callers |-> "none"]
  /\ arg = [c \in Callers |-> <<>>]
  /\ inst = [c \in Callers |-> NoInst]
  /\ procs = <<>>
  /\ calls = 0
  /\ caller = 0
  /\ fs0 = fs
  /\ sentAtCall = [c \in Callers |-> FALSE]

Init == InitWith({W})

\* ------------------------------------------------------------- launch_pget
\* lines 7-10: the call, the two derived paths, and the first existence test
launch_pget_call(c, f) ==
  /\ pc[c] \in Rest
  /\ Enter(c, "launch_pget", f,
           IF ~WithSuffixOk(f, PathSuffix(f) \o LOADING)
           THEN "raised_ValueError"
           ELSE IF launch_pget_target_exists(fs, f)
                THEN "returned" ELSE "lp_sentinel")
  /\ UNCHANGED <<fs, fs0, names, PGET, inst, procs>>

\* line 10, second operand of the or, and the return of line 11
launch_pget_check_sentinel(c) ==
  /\ pc[c] = "lp_sentinel"
  /\ Goto(c, IF launch_pget_sentinel_exists(fs, arg[c])
             THEN "returned" ELSE "lp_gate")
  /\ UNCHANGED <<fs, fs0, names, PGET, inst, procs>>

\* line 13; falling off the end of the function returns
launch_pget_check_gate(c) ==
  /\ pc[c] = "lp_gate"
  /\ Goto(c, IF launch_pget_gate(fs, PGET[c]) THEN "lp_touch" ELSE "returned")
  /\ UNCHANGED <<fs, fs0, names, PGET, inst, procs>>

\* line 15
launch_pget_touch_exclusive(c) ==
  /\ pc[c] = "lp_touch"
  /\ IF launch_pget_downloading(arg[c]) \in fs
     THEN fs' = fs /\ Goto(c, "returned")
     ELSE fs' = fs \cup {launch_pget_downloading(arg[c])} /\ Goto(c, "lp_spawn")
  /\ UNCHANGED <<fs0, names, PGET, inst, procs>>

launch_pget_touch(c) ==
  /\ pc[c] = "lp_touch"
  /\ fs' = fs \cup {launch_pget_downloading(arg[c])}
  /\ Goto(c, "lp_spawn")
  /\ UNCHANGED <<fs0, names, PGET, inst, procs>>

\* line 16: Popen starts the downloader and the handle is dropped, or Popen
\* raises (no executable) and the error leaves the function
launch_pget_popen_rollback(c) ==
  /\ pc[c] = "lp_spawn"
  /\ \E ok \in BOOLEAN :
       IF ok
       THEN /\ procs' = Append(procs, [args |-> launch_pget_args(arg[c]),
                                       status |-> "running", made |-> FALSE])
            /\ fs' = fs
            /\ Goto(c, "returned")
       ELSE /\ procs' = procs
            /\ fs' = fs \ {launch_pget_downloading(arg[c])}
            /\ Goto(c, "raised_OSError")
  /\ UNCHANGED <<fs0, names, PGET, inst>>

launch_pget_popen(c) ==
  /\ pc[c] = "lp_spawn"
  /\ \E ok \in BOOLEAN :
       IF ok
       THEN /\ procs' = Append(procs, [args |-> launch_pget_args(arg[c]),
                                       status |-> "running", made |-> FALSE])
            /\ Goto(c, "returned")
       ELSE /\ procs' = procs
            /\ Goto(c, "raised_OSError")
  /\ UNCHANGED <<fs, fs0, names, PGET, inst>>

\* --------------------------------------------------------------- wait_pget
\* line 19: the call
wait_pget_call(c, f) ==
  /\ pc[c] \in Rest
  /\ Enter(c, "wait_pget", f, "wp_loop")
  /\ UNCHANGED <<fs, fs0, names, PGET, inst, procs>>

\* line 20
wait_pget_exists_inverted(files, file_name) == file_name \notin files

wait_pget_exists_sentinel(files, file_name) ==
  launch_pget_downloading(file_name) \in files

wait_pget_exists_unmarked(files, file_name) ==
  file_name \in files /\ launch_pget_downloading(file_name) \notin files

wait_pget_exists(files, file_name) == file_name \in files

\* lines 20-21: one test of the loop condition; a failed test sleeps and
\* comes back to the test
wait_pget_poll(c) ==
  /\ pc[c] = "wp_loop"
  /\ Goto(c, IF wait_pget_exists(fs, arg[c]) THEN "returned" ELSE "wp_loop")
  /\ UNCHANGED <<fs, fs0, names, PGET, inst, procs>>

\* ------------------------------------------------- PGetFile, by line
\* lines 42-45
PGetFile_downloading_bare(file_path) ==
  WithSuffix(file_path, PathSuffix(file_path) \o <<"loading">>)

PGetFile_downloading(file_path) ==
  WithSuffix(file_path, PathSuffix(file_path) \o LOADING)

\* line 50, first operand
PGetFile_launch_target_exists(files, self) == self.file_path \in files

\* line 50, second operand
PGetFile_launch_sentinel_exists_twice(files, self) == self.file_path \in files

PGetFile_launch_sentinel_exists(files, self) == self.downloading \in files

\* line 53
PGetFile_launch_gate_inverted(files, pgetenv) ==
  Truthy(pgetenv) \/ DOCKERENV \in files

PGetFile_launch_gate(files, pgetenv) ==
  Truthy(pgetenv) \/ DOCKERENV \notin files

\* line 54 and the argument list of lines 56-58
PGetFile_launch_args_path(self) ==
  <<PGET_BIN, BASE_URL \o self.fname, self.downloading>>

PGetFile_launch_args(self) ==
  <<PGET_BIN, BASE_URL \o self.fname, self.fname>>

\* line 62, line 68: the truth value of self.proc, a Popen being truthy
PGetFile_proc_falsy(self) == FALSE

PGetFile_proc_truthy(self) == self.proc # NONE

\* lines 63 and 69: Popen.wait comes back once the subprocess has exited
Popen_wait_poll(ps, h) == TRUE

Popen_wait_made(ps, h) == ps[h].status = "exited" /\ ps[h].made

Popen_wait(ps, h) == ps[h].status = "exited"

\* launch returns to its caller: to line 68 of wait, or out of the call
LaunchReturn(c) == IF op[c] = "PGetFile.wait" THEN "pw_after" ELSE "returned"

\* lines 41-45: the fields the constructor sets
PGetFile_new(f) ==
  [made |-> TRUE, fname |-> f, file_path |-> f,
   downloading |-> PGetFile_downloading(f), proc |-> UNSET]

\* lines 40-46 and 48-51: the constructor sets the three fields, leaves proc
\* unset, and runs launch up to its first existence test; with_suffix
\* raising leaves no instance
PGetFile_init(c, f) ==
  /\ pc[c] \in Rest
  /\ IF ~WithSuffixOk(f, PathSuffix(f) \o LOADING)
     THEN /\ inst' = inst
          /\ Enter(c, "PGetFile.__init__", f, "raised_ValueError")
     ELSE LET self == PGetFile_new(f)
          IN  /\ inst' = [inst EXCEPT ![c] = self]
              /\ Enter(c, "PGetFile.__init__", f,
                       IF PGetFile_launch_target_exists(fs, self)
                       THEN "returned" ELSE "pl_sentinel")
  /\ UNCHANGED <<fs, fs0, names, PGET, procs>>

\* lines 48-51: launch called on an instance, up to its first existence test
PGetFile_launch_call(c) ==
  /\ pc[c] \in Rest
  /\ inst[c].made
  /\ Enter(c, "PGetFile.launch", inst[c].fname,
           IF PGetFile_launch_target_exists(fs, inst[c])
           THEN "returned" ELSE "pl_sentinel")
  /\ UNCHANGED <<fs, fs0, names, PGET, inst, procs>>

\* line 50, second operand of the or, and the return of line 51
PGetFile_launch_check_sentinel(c) ==
  /\ pc[c] = "pl_sentinel"
  /\ Goto(c, IF PGetFile_launch_sentinel_exists(fs, inst[c])
             THEN LaunchReturn(c) ELSE "pl_gate")
  /\ UNCHANGED <<fs, fs0, names, PGET, inst, procs>>

\* line 53; falling off the end of the method returns
PGetFile_launch_check_gate(c) ==
  /\ pc[c] = "pl_gate"
  /\ Goto(c, IF PGetFile_launch_gate(fs, PGET[c])
             THEN "pl_touch" ELSE LaunchReturn(c))
  /\ UNCHANGED <<fs, fs0, names, PGET, inst, procs>>

\* line 55
PGetFile_launch_touch(c) ==
  /\ pc[c] = "pl_touch"
  /\ fs' = fs \cup {inst[c].downloading}
  /\ Goto(c, "pl_spawn")
  /\ UNCHANGED <<fs0, names, PGET, inst, procs>>

\* lines 56-58: Popen starts the downloader and self.proc keeps the handle,
\* or Popen raises and nothing is assigned
PGetFile_launch_popen(c) ==
  /\ pc[c] = "pl_spawn"
  /\ \E ok \in BOOLEAN :
       IF ok
       THEN /\ procs' = Append(procs, [args |-> PGetFile_launch_args(inst[c]),
                                       status |-> "running", made |-> FALSE])
            /\ inst' = [inst EXCEPT ![c].proc = Len(procs) + 1]
            /\ Goto(c, LaunchReturn(c))
       ELSE /\ procs' = procs
            /\ inst' = inst
            /\ Goto(c, "raised_OSError")
  /\ UNCHANGED <<fs, fs0, names, PGET>>

\* lines 60-73, one step per evaluation:
\*   the call and line 62, where reading an unset self.proc raises
\*   AttributeError; lines 63-64 and 69-70, blocked until the subprocess has
\*   exited; line 66; line 67 with launch's first existence test; line 68;
\*   lines 72-73, one test of the polling loop
PGetFile_wait(c) ==
  /\ CASE pc[c] \in Rest ->
            /\ inst[c].made
            /\ Enter(c, "PGetFile.wait", inst[c].fname,
                     IF inst[c].proc = UNSET THEN "raised_AttributeError"
                     ELSE IF PGetFile_proc_truthy(inst[c])
                          THEN "pw_proc" ELSE "pw_sentinel")
       [] pc[c] = "pw_proc" ->
            /\ Popen_wait(procs, inst[c].proc)
            /\ Goto(c, "returned")
       [] pc[c] = "pw_sentinel" ->
            /\ Goto(c, IF inst[c].downloading \notin fs
                       THEN "pw_launch" ELSE "pw_poll")
       [] pc[c] = "pw_launch" ->
            /\ Goto(c, IF PGetFile_launch_target_exists(fs, inst[c])
                       THEN "pw_after" ELSE "pl_sentinel")
       [] pc[c] = "pw_after" ->
            /\ Goto(c, IF inst[c].proc = UNSET THEN "raised_AttributeError"
                       ELSE IF PGetFile_proc_truthy(inst[c])
                            THEN "pw_proc" ELSE "returned")
       [] pc[c] = "pw_poll" ->
            /\ Goto(c, IF inst[c].file_path \in fs
                       THEN "returned" ELSE "pw_poll")
       [] OTHER -> FALSE
  /\ UNCHANGED <<fs, fs0, names, PGET, inst, procs>>

\* ---------------------------------------------------------- the downloader
\* /usr/bin/pget url dest: it writes dest
pget_create(h) ==
  /\ procs[h].status = "running"
  /\ fs' = fs \cup {procs[h].args[3]}
  /\ procs' = [procs EXCEPT ![h].made = TRUE]
  /\ UNCHANGED <<fs0, names, PGET, pc, op, arg, inst, calls, caller, sentAtCall>>

\* it exits, having written dest or not
pget_exit(h) ==
  /\ procs[h].status = "running"
  /\ procs' = [procs EXCEPT ![h].status = "exited"]
  /\ UNCHANGED <<fs, fs0, names, PGET, pc, op, arg, inst, calls, caller,
               sentAtCall>>

Next ==
  \/ \E c \in Callers, f \in names : launch_pget_call(c, f)
  \/ \E c \in Callers : launch_pget_check_sentinel(c)
  \/ \E c \in Callers : launch_pget_check_gate(c)
  \/ \E c \in Callers : launch_pget_touch(c)
  \/ \E c \in Callers : launch_pget_popen(c)
  \/ \E c \in Callers, f \in names : wait_pget_call(c, f)
  \/ \E c \in Callers : wait_pget_poll(c)
  \/ \E c \in Callers, f \in names : PGetFile_init(c, f)
  \/ \E c \in Callers : PGetFile_launch_call(c)
  \/ \E c \in Callers : PGetFile_launch_check_sentinel(c)
  \/ \E c \in Callers : PGetFile_launch_check_gate(c)
  \/ \E c \in Callers : PGetFile_launch_touch(c)
  \/ \E c \in Callers : PGetFile_launch_popen(c)
  \/ \E c \in Callers : PGetFile_wait(c)
  \/ \E h \in DOMAIN procs : pget_create(h)
  \/ \E h \in DOMAIN procs : pget_exit(h)

Spec == Init /\ [][Next]_vars

\* a caller inside a call keeps running: its thread is scheduled, and neither
\* time.sleep nor a finished Popen.wait holds it back for ever; nothing is
\* assumed of the downloader, which may hang
Run(c) ==
  /\ pc[c] \notin Rest
  /\ \/ launch_pget_check_sentinel(c)
     \/ launch_pget_check_gate(c)
     \/ launch_pget_touch(c)
     \/ launch_pget_popen(c)
     \/ wait_pget_poll(c)
     \/ PGetFile_launch_check_sentinel(c)
     \/ PGetFile_launch_check_gate(c)
     \/ PGetFile_launch_touch(c)
     \/ PGetFile_launch_popen(c)
     \/ PGetFile_wait(c)

FairSpec == Init /\ [][Next]_vars /\ \A c \in Callers : WF_vars(Run(c))

\* ------------------------------------------------------------------ claims
LaunchOps == {"launch_pget", "PGetFile.__init__", "PGetFile.launch"}

WaitOps == {"wait_pget", "PGetFile.wait"}

\* caller c makes a call in this step
Calls(c) == calls' = calls + 1 /\ caller' = c

\* caller c takes a step inside a call
Steps(c) == pc[c] \notin Rest /\ pc'[c] # pc[c]

\* the environment gate of caller c; no step changes it
Gate(c) == Truthy(PGET[c]) \/ DOCKERENV \notin fs

\* C1: a launch (launch_pget, PGetFile construction, PGetFile.launch) called
\* while the target file exists is over in that one step, having spawned
\* nothing and created nothing, and the instance holds the handle it held (a
\* new instance holds none), however often it is repeated.
C1_LaunchOnExistingTarget ==
  [][\A c \in Callers :
       (Calls(c) /\ op'[c] \in LaunchOps /\ arg'[c] \in fs)
         => /\ pc'[c] = "returned"
            /\ fs' = fs
            /\ procs' = procs
            /\ inst'[c].proc = IF op'[c] = "PGetFile.__init__"
                               THEN UNSET ELSE inst[c].proc]_vars

C1_Witness ==
  \E c \in Callers :
    /\ op[c] \in LaunchOps /\ pc[c] = "returned" /\ caller = c
    /\ calls = MaxCalls
    /\ arg[c] \in fs0 /\ Sentinel(arg[c]) \notin fs /\ procs = <<>>

\* C2: a launch decision that began with the sentinel present spawns no
\* subprocess, whether the target exists or not.
C2_SentinelStopsSpawn ==
  [][\A c \in Callers :
       (Steps(c) /\ sentAtCall[c]) => procs' = procs]_vars

C2_Witness ==
  \E c \in Callers :
    /\ op[c] \in LaunchOps /\ pc[c] = "returned" /\ caller = c
    /\ Sentinel(arg[c]) \in fs0 /\ arg[c] \notin fs /\ procs = <<>>

\* the downloader only ever exits after it has created the target file
GoodDownloader ==
  \A h \in DOMAIN procs : procs[h].status = "exited" => procs[h].made

\* C3: when PGetFile.wait has returned, the target file exists, provided the
\* downloader only exits after creating it.
C3_WaitReturnsWithTarget ==
  \A c \in Callers :
    (op[c] = "PGetFile.wait" /\ pc[c] = "returned" /\ GoodDownloader)
      => inst[c].file_path \in fs

C3_Witness ==
  \E c \in Callers :
    /\ op[c] = "PGetFile.wait" /\ pc[c] = "returned" /\ GoodDownloader
    /\ inst[c].file_path \notin fs0

\* C4: a wait on an instance whose launch spawned nothing passes its handle
\* check without raising; constructing PGetFile on a present file and then
\* calling wait returns normally.
C4_WaitNeverRaises ==
  \A c \in Callers :
    op[c] = "PGetFile.wait" => pc[c] # "raised_AttributeError"

\* caller c is inside a wait call
InWait(c) == op[c] \in WaitOps /\ pc[c] \notin Rest

\* C5: a launch that runs alone from target absent, sentinel absent and an
\* allowing gate, and returns, has created the sentinel and spawned exactly
\* one subprocess, with arguments /usr/bin/pget, base URL + name, name; and
\* once that subprocess has created the target and exited, a wait call that
\* is under way returns.
C5_LaunchEffect ==
  \A c \in Callers :
    ( /\ calls = 1 /\ caller = c /\ op[c] \in LaunchOps /\ pc[c] = "returned"
      /\ arg[c] \notin fs0 /\ Sentinel(arg[c]) \notin fs0 /\ Gate(c) )
      => /\ arg[c] \o <<".", "loading">> \in fs
         /\ Len(procs) = 1
         /\ procs[1].args =
              << <<"/usr/bin/pget">>,
                 <<"https://weights.replicate.delivery/">> \o arg[c],
                 arg[c] >>

C5_EndToEnd ==
  /\ []C5_LaunchEffect
  /\ \A c \in Callers :
       ( /\ InWait(c)
         /\ Len(procs) = 1 /\ procs[1].made /\ procs[1].status = "exited" )
         ~> (op[c] \in WaitOps /\ pc[c] = "returned")

C5_Witness ==
  \E c \in Callers :
    /\ op[c] = "PGetFile.wait" /\ pc[c] = "returned" /\ calls = 2
    /\ arg[c] \notin fs0 /\ Sentinel(arg[c]) \notin fs0
    /\ Len(procs) = 1 /\ procs[1].made /\ procs[1].status = "exited"

\* two subprocesses have been spawned for file name f, and one of them has
\* created the target
Raced(f) ==
  /\ Len(procs) >= 2
  /\ \A h \in DOMAIN procs : procs[h].args[3] = f
  /\ \E h \in DOMAIN procs : procs[h].made

\* C6 as claimed: once two launches have both spawned and either subprocess
\* has created the target, every wait that is under way returns, the
\* handle-based waits included.
C6_AllWaitsReturn ==
  \A c \in Callers :
    (InWait(c) /\ Raced(arg[c])) ~> (op[c] \in WaitOps /\ pc[c] = "returned")

\* C6 as amended: after such a race every polling wait returns, and a
\* handle-based wait returns once the subprocess of its own instance has
\* exited; it does not look at the target file.
C6_WaitsReturnAfterRace ==
  \A c \in Callers :
    /\ (pc[c] \in {"wp_loop", "pw_poll"} /\ Raced(arg[c]))
         ~> (op[c] \in WaitOps /\ pc[c] = "returned")
    /\ ( /\ pc[c] = "pw_proc" /\ Raced(arg[c])
         /\ procs[inst[c].proc].status = "exited" )
         ~> (op[c] = "PGetFile.wait" /\ pc[c] = "returned")

C6_Witness ==
  \E c \in Callers :
    /\ op[c] = "PGetFile.wait" /\ pc[c] = "returned" /\ Raced(arg[c])
    /\ ~procs[inst[c].proc].made

\* C7: a launch of a caller whose gate forbids downloading creates no
\* sentinel and spawns no subprocess.
C7_GateForbids ==
  [][\A c \in Callers :
       (pc[c] \in LaunchPcs /\ pc'[c] # pc[c] /\ ~Gate(c))
         => fs' = fs /\ procs' = procs]_vars

C7_Witness ==
  \E c \in Callers :
    /\ ~Gate(c) /\ op[c] \in LaunchOps /\ pc[c] = "returned" /\ caller = c
    /\ arg[c] \notin fs /\ Sentinel(arg[c]) \notin fs

\* C8: after a launch under a forbidding gate, a wait call (wait_pget or
\* PGetFile.wait) blocks: it is not over for as long as the target file does
\* not exist.
C8_WaitBlocks ==
  \A c \in Callers :
    (~Gate(c) /\ op[c] \in WaitOps /\ pc[c] \in Rest) => arg[c] \in fs

\* C9: a test of the polling loop (wait_pget, and lines 72-73 of
\* PGetFile.wait) leaves the loop exactly when the target file exists, and a
\* polling wait that has returned has the target file.
C9_PollingWait ==
  \A c \in Callers :
    /\ pc[c] = "wp_loop"
         => ((ENABLED <<wait_pget_poll(c)>>_vars) <=> arg[c] \in fs)
    /\ pc[c] = "pw_poll"
         => ((ENABLED <<PGetFile_wait(c)>>_vars) <=> arg[c] \in fs)
    /\ (op[c] = "wait_pget" /\ pc[c] = "returned") => arg[c] \in fs

C9_Witness ==
  \E c \in Callers :
    /\ op[c] = "wait_pget" /\ pc[c] = "returned" /\ arg[c] \notin fs0

\* file names on which the two entry points are compared line by line
SampleNames == {W, <<"w", ".", "b">>, <<"w", ".", "loading">>, <<"w", ".">>}

\* what a launch that began with the files fs0 does when nothing runs beside
\* it, up to the moment its subprocess first acts: the files then, and the
\* argument lists of the subprocesses
LoneLaunch(c) ==
  IF arg[c] \in fs0 \/ Sentinel(arg[c]) \in fs0 \/ ~Gate(c)
  THEN [files |-> fs0, spawned |-> <<>>]
  ELSE [files |-> fs0 \cup {Sentinel(arg[c])},
        spawned |-> IF pc[c] = "raised_OSError" THEN <<>>
                    ELSE << <<PGET_BIN, BASE_URL \o arg[c], arg[c]>> >>]

\* the sets of existing paths on which the tests of the two entry points
\* are compared
SampleFiles ==
  SUBSET (SampleNames \cup {launch_pget_downloading(f) : f \in SampleNames}
            \cup {DOCKERENV})

\* line by line: the existence tests, the gate, the sentinel path and the
\* argument list of launch_pget against those of PGetFile
SameLines ==
  /\ \A files \in SampleFiles, v \in EnvValues :
       launch_pget_gate(files, v) = PGetFile_launch_gate(files, v)
  /\ \A f \in SampleNames :
       LET self == PGetFile_new(f)
       IN  /\ launch_pget_downloading(f) = self.downloading
           /\ launch_pget_args(f) = PGetFile_launch_args(self)
           /\ \A files \in SampleFiles :
                /\ launch_pget_target_exists(files, f)
                     = PGetFile_launch_target_exists(files, self)
                /\ launch_pget_sentinel_exists(files, f)
                     = PGetFile_launch_sentinel_exists(files, self)

\* C10: launch_pget and PGetFile's launch decide alike and act alike: run
\* alone from the same files and the same gate, each leaves the same files
\* and the same spawn, PGetFile keeping the handle; and line by line their
\* tests, their gate, their sentinel path and their argument list agree.
C10_LaunchEquivalence ==
  /\ \A c \in Callers :
       ( /\ calls = 1 /\ caller = c /\ op[c] \in LaunchOps
         /\ pc[c] \in {"returned", "raised_OSError"}
         /\ \A h \in DOMAIN procs : ~procs[h].made )
         => /\ fs = LoneLaunch(c).files
            /\ [h \in DOMAIN procs |-> procs[h].args] = LoneLaunch(c).spawned
            /\ inst[c].proc = IF op[c] = "launch_pget" \/ procs = <<>>
                              THEN UNSET ELSE 1
  /\ SameLines

C10_Witness ==
  \E c \in Callers :
    /\ calls = 1 /\ caller = c /\ op[c] = "PGetFile.__init__"
    /\ pc[c] = "returned" /\ Len(procs) = 1 /\ ~procs[1].made
    /\ inst[c].proc = 1

\* ---------------------------------------------------------- sentinel paths
\* file names as callers may pass them, in pathlib's normal form: plain, with
\* one or more extensions, in a directory, ending in the marker suffix,
\* ending in a dot, and with an empty final component (the empty string,
\* which Path turns into ".", and the root)
PathNames ==
  SampleNames \cup { <<"d", SEP, "w", DOT, "tar", DOT, "gz">>, <<>>, <<SEP>> }

\* a run on one of these names
NameInit == \E n \in PathNames : InitWith({n})

NameSpec == NameInit /\ [][Next]_vars

\* C11: the sentinel path that launch_pget and the PGetFile constructor
\* derive from a file name is the name with .loading appended, and deriving
\* it raises nothing, whatever the name.
C11_SentinelDerivation ==
  \A c \in Callers :
    /\ op[c] \in {"launch_pget", "PGetFile.__init__"}
         => pc[c] # "raised_ValueError"
    /\ (op[c] = "launch_pget" /\ pc[c] # "raised_ValueError")
         => launch_pget_downloading(arg[c]) = arg[c] \o LOADING
    /\ (op[c] = "PGetFile.__init__" /\ pc[c] # "raised_ValueError")
         => inst[c].downloading = arg[c] \o LOADING

\* C12: the two existence tests and the creation of the sentinel are separate
\* steps: a launch that is past its tests does not test again, it creates
\* the sentinel whether or not another caller has created it meanwhile and
\* then spawns (unless Popen raises); so two launches on one absent target
\* can both pass the tests and both spawn.
C12_RaceWindow ==
  [][\A c \in Callers :
       /\ (pc[c] \in {"lp_touch", "pl_touch"} /\ pc'[c] # pc[c])
            => /\ pc'[c] \in {"lp_spawn", "pl_spawn"}
               /\ fs' = fs \cup {Sentinel(arg[c])}
       /\ (pc[c] \in {"lp_spawn", "pl_spawn"} /\ pc'[c] # pc[c])
            => \/ pc'[c] = "raised_OSError" /\ procs' = procs
               \/ /\ Len(procs') = Len(procs) + 1
                  /\ procs'[Len(procs')].args[3] = arg[c]]_vars

\* two launch calls, nothing else, on a target that was absent and had no
\* sentinel, and two subprocesses for that target
C12_Witness ==
  /\ calls = 2
  /\ \A c \in Callers : op[c] \in LaunchOps /\ pc[c] = "returned"
  /\ \E f \in names :
       /\ f \notin fs0 /\ Sentinel(f) \notin fs0
       /\ Len(procs) = 2
       /\ \A h \in DOMAIN procs : procs[h].args[3] = f /\ ~procs[h].made

\* ------------------------------------------------ launch as one atomic step
\* lines 7-16 with nothing running in between: the callers are serialised
\* around the launch decision
launch_pget_atomic(c, f) ==
  /\ pc[c] \in Rest
  /\ IF ~WithSuffixOk(f, PathSuffix(f) \o LOADING)
     THEN /\ Enter(c, "launch_pget", f, "raised_ValueError")
          /\ UNCHANGED <<fs, procs>>
     ELSE IF \/ launch_pget_target_exists(fs, f)
             \/ launch_pget_sentinel_exists(fs, f)
             \/ ~launch_pget_gate(fs, PGET[c])
     THEN /\ Enter(c, "launch_pget", f, "returned")
          /\ UNCHANGED <<fs, procs>>
     ELSE /\ fs' = fs \cup {launch_pget_downloading(f)}
          /\ \E ok \in BOOLEAN :
               IF ok
               THEN /\ procs' = Append(procs, [args |-> launch_pget_args(f),
                                               status |-> "running",
                                               made |-> FALSE])
                    /\ Enter(c, "launch_pget", f, "returned")
               ELSE /\ procs' = procs
                    /\ Enter(c, "launch_pget", f, "raised_OSError")
  /\ UNCHANGED <<fs0, names, PGET, inst>>

\* lines 48-58 with nothing running in between, for the instance self of
\* caller c, called as entry point o
PGetFile_launch_atomic_body(c, o, self) ==
  IF \/ PGetFile_launch_target_exists(fs, self)
     \/ PGetFile_launch_sentinel_exists(fs, self)
     \/ ~PGetFile_launch_gate(fs, PGET[c])
  THEN /\ inst' = [inst EXCEPT ![c] = self]
       /\ Enter(c, o, self.fname, "returned")
       /\ UNCHANGED <<fs, procs>>
  ELSE /\ fs' = fs \cup {self.downloading}
       /\ \E ok \in BOOLEAN :
            IF ok
            THEN /\ procs' = Append(procs, [args |-> PGetFile_launch_args(self),
                                            status |-> "running",
                                            made |-> FALSE])
                 /\ inst' = [inst EXCEPT ![c] =
                               [self EXCEPT !.proc = Len(procs) + 1]]
                 /\ Enter(c, o, self.fname, "returned")
            ELSE /\ procs' = procs
                 /\ inst' = [inst EXCEPT ![c] = self]
                 /\ Enter(c, o, self.fname, "raised_OSError")

\* lines 40-46, the launch of line 46 atomic
PGetFile_init_atomic(c, f) ==
  /\ pc[c] \in Rest
  /\ IF ~WithSuffixOk(f, PathSuffix(f) \o LOADING)
     THEN /\ Enter(c, "PGetFile.__init__", f, "raised_ValueError")
          /\ UNCHANGED <<fs, procs, inst>>
     ELSE PGetFile_launch_atomic_body(c, "PGetFile.__init__", PGetFile_new(f))
  /\ UNCHANGED <<fs0, names, PGET>>

\* lines 48-58 called on an instance, atomic
PGetFile_launch_atomic(c) ==
  /\ pc[c] \in Rest
  /\ inst[c].made
  /\ PGetFile_launch_atomic_body(c, "PGetFile.launch", inst[c])
  /\ UNCHANGED <<fs0, names, PGET>>

\* the waits and the downloader are as before; the launch inside
\* PGetFile.wait (line 67) is never reached, see C4
NextAtomic ==
  \/ \E c \in Callers, f \in names : launch_pget_atomic(c, f)
  \/ \E c \in Callers, f \in names : PGetFile_init_atomic(c, f)
  \/ \E c \in Callers : PGetFile_launch_atomic(c)
  \/ \E c \in Callers, f \in names : wait_pget_call(c, f)
  \/ \E c \in Callers : wait_pget_poll(c)
  \/ \E c \in Callers : PGetFile_wait(c)
  \/ \E h \in DOMAIN procs : pget_create(h)
  \/ \E h \in DOMAIN procs : pget_exit(h)

AtomicSpec == Init /\ [][NextAtomic]_vars

\* C13: when every launch decision is one atomic step, at most one
\* subprocess is ever spawned for a target, whatever launch_pget, PGetFile
\* construction, PGetFile.launch and PGetFile.wait calls are made; no wait
\* gets into a launch of its own.
C13_AtMostOneSpawn ==
  /\ \A h1, h2 \in DOMAIN procs :
       procs[h1].args[3] = procs[h2].args[3] => h1 = h2
  /\ \A c \in Callers : pc[c] \notin LaunchPcs

\* one spawn, and launches of every caller after it with the target still
\* absent
C13_Witness ==
  /\ calls = MaxCalls
  /\ \A c \in Callers : op[c] \in LaunchOps /\ pc[c] = "returned"
  /\ Len(procs) = 1 /\ ~procs[1].made /\ procs[1].args[3] \notin fs

\* C14: whenever a subprocess has been spawned for a target, the sentinel of
\* that target exists: it is there already when the spawn happens, no step
\* removes a file, and the only file a step of a caller creates is the
\* sentinel of the target it was called with, never that target.
C14_SpawnedHasSentinel ==
  /\ [](\A h \in DOMAIN procs : Sentinel(procs[h].args[3]) \in fs)
  /\ [][ /\ fs \subseteq fs'
         /\ Len(procs') > Len(procs)
              => Sentinel(procs'[Len(procs')].args[3]) \in fs
         /\ \A c \in Callers :
              (pc'[c] # pc[c] \/ Calls(c))
                => /\ fs' \in {fs, fs \cup {Sentinel(arg'[c])}}
                   /\ arg'[c] \in fs' => arg'[c] \in fs ]_vars

\* a subprocess has created its target and exited, and the sentinel is still
\* there
C14_Witness ==
  \E h \in DOMAIN procs :
    /\ procs[h].made /\ procs[h].status = "exited"
    /\ procs[h].args[3] \in fs /\ procs[h].args[3] \notin fs0
    /\ Sentinel(procs[h].args[3]) \in fs

\* C15: PGetFile.wait on an instance with a handle leaves the wait exactly
\* when the subprocess of the handle has exited, and it can always do so
\* then; it does not look at the target, which may be absent.
C15_HandleWaitReturnsOnExit ==
  /\ [](\A c \in Callers :
          (pc[c] = "pw_proc" /\ procs[inst[c].proc].status = "exited")
             => ENABLED <<PGetFile_wait(c)>>_vars)
  /\ [][\A c \in Callers :
          (pc[c] = "pw_proc" /\ pc'[c] # pc[c])
             => /\ pc'[c] = "returned"
                /\ procs[inst[c].proc].status = "exited"]_vars

\* the wait has returned, the subprocess exited without writing the target,
\* and the target does not exist
C15_Witness ==
  \E c \in Callers :
    /\ op[c] = "PGetFile.wait" /\ pc[c] = "returned"
    /\ procs[inst[c].proc].status = "exited" /\ ~procs[inst[c].proc].made
    /\ inst[c].file_path \notin fs

\* a subprocess for file name f has exited without writing f, the sentinel of
\* f is there and f is not
Dead(f) ==
  /\ f \notin fs /\ Sentinel(f) \in fs
  /\ \E h \in DOMAIN procs :
       /\ procs[h].args[3] = f
       /\ procs[h].status = "exited" /\ ~procs[h].made

\* a launch called in such a state spawns nothing
NoSpawnAfterDeath(c) ==
  /\ (Calls(c) /\ op'[c] \in LaunchOps /\ Dead(arg'[c]))
       => pc'[c] \in LaunchPcs /\ sentAtCall'[c]
  /\ (Steps(c) /\ sentAtCall[c])
       => procs' = procs /\ pc'[c] \in {"returned", "pw_after"}

SpawnFailure(c) ==
  (pc[c] \in {"lp_spawn", "pl_spawn"} /\ pc'[c] = "raised_OSError")
    => fs' = fs /\ procs' = procs /\ inst' = inst

\* C18 as claimed: when Popen fails inside a launch the error reaches the
\* caller, no handle is stored and the sentinel stays; and once a launch has
\* failed so, no subprocess is spawned for that target any more.
C18_SpawnFailureIsFinal ==
  [][\A c, d \in Callers :
       /\ SpawnFailure(c)
       /\ pc[d] = "raised_OSError"
            => ~ /\ Len(procs') > Len(procs)
                 /\ procs'[Len(procs')].args[3] = arg[d]]_vars

\* C18 as amended: the error reaches the caller, no handle is stored and the
\* sentinel stays for good; every launch called from then on finds the
\* target or the sentinel and spawns nothing.
C18_SpawnFailureLeavesSentinel ==
  /\ [](\A d \in Callers :
          pc[d] = "raised_OSError" => Sentinel(arg[d]) \in fs)
  /\ [][\A c \in Callers :
          /\ SpawnFailure(c)
          /\ fs \subseteq fs'
          /\ (Calls(c) /\ op'[c] \in LaunchOps /\ Sentinel(arg'[c]) \in fs)
               => pc'[c] = "returned" \/ sentAtCall'[c]
          /\ (Steps(c) /\ sentAtCall[c]) => procs' = procs]_vars

\* a spawn has failed, the latest call is a launch of another caller on the
\* same target, it has returned, and nothing has been spawned
C18_Witness ==
  \E c, d \in Callers :
    /\ pc[d] = "raised_OSError" /\ inst[d].proc = UNSET
    /\ c # d /\ caller = c /\ op[c] \in LaunchOps /\ pc[c] = "returned"
    /\ arg[c] = arg[d] /\ arg[c] \notin fs /\ Sentinel(arg[c]) \notin fs0
    /\ procs = <<>>

\* --------------------------------------------------------- two file names
\* a run on two file names, one of which ends in the marker suffix
PairNames == {W, W \o LOADING}

PairInit == InitWith(PairNames)

PairSpec == PairInit /\ [][Next]_vars

\* the files the protocol of file name f reads and writes
ProtocolFiles(f) == {f, Sentinel(f)}

\* C19: the protocols of distinct file names are independent: no step of a
\* launch or a wait on one file name changes the existence of the target or
\* of the sentinel of another file name, on which alone the launch decision,
\* the spawn and the wait outcome of that other name depend.
C19_TargetsIndependent ==
  [][\A c \in Callers :
       (Calls(c) \/ Steps(c))
         => \A g \in names \ {arg'[c]} :
              fs' \cap ProtocolFiles(g) = fs \cap ProtocolFiles(g)]_vars

\* the positions of a launch, by line
SentinelPcs == {"lp_sentinel", "pl_sentinel"}

GatePcs == {"lp_gate", "pl_gate"}

TouchPcs == {"lp_touch", "pl_touch"}

\* the gate is read at one place only: after the target was seen absent
\* (which leads to the sentinel test) and the sentinel was seen absent (which
\* leads to the gate), and the sentinel is created only past the gate
GateReadOnce(c) ==
  /\ (pc'[c] \in SentinelPcs /\ pc'[c] # pc[c])
       => (Calls(c) \/ pc[c] = "pw_launch") /\ arg'[c] \notin fs
  /\ (pc'[c] \in GatePcs /\ pc'[c] # pc[c])
       => pc[c] \in SentinelPcs /\ Sentinel(arg[c]) \notin fs
  /\ (pc'[c] \in TouchPcs /\ pc'[c] # pc[c]) => pc[c] \in GatePcs

\* C20 as claimed: a launch that found target and sentinel absent goes on to
\* download exactly when PGET is set, to whatever value, or /.dockerenv is
\* absent; the gate is read once, after the two existence tests.
C20_GateWhateverValue ==
  [][\A c \in Callers :
       /\ GateReadOnce(c)
       /\ (pc[c] \in GatePcs /\ pc'[c] # pc[c])
            => (pc'[c] \in TouchPcs
                  <=> (PGET[c] # <<>> \/ DOCKERENV \notin fs))]_vars

\* C20 as amended: it goes on to download exactly when PGET is set to a
\* non-empty string or /.dockerenv is absent.
C20_GateTruthTable ==
  [][\A c \in Callers :
       /\ GateReadOnce(c)
       /\ (pc[c] \in GatePcs /\ pc'[c] # pc[c])
            => (pc'[c] \in TouchPcs
                  <=> ((PGET[c] # <<>> /\ PGET[c] # <<"">>)
                         \/ DOCKERENV \notin fs))]_vars

\* PGET is set to the empty string, /.dockerenv exists, and a launch of that
\* caller on an absent target without sentinel has returned with nothing
\* created
C20_Witness ==
  \E c \in Callers :
    /\ PGET[c] = <<"">> /\ DOCKERENV \in fs
    /\ op[c] \in LaunchOps /\ pc[c] = "returned" /\ caller = c
    /\ arg[c] \notin fs /\ Sentinel(arg[c]) \notin fs /\ procs = <<>>

====
